---------------------------- MODULE Spec2Model ----------------------------
(***************************************************************************)
(* A model of the riquid template front end: the Tokenizer that slices a  *)
(* template into text and tags, the Scanner and the Lexer (Tokens) that   *)
(* turn a tag's text into tokens, the Parser's cursor over those tokens   *)
(* and the Context's stack of scopes.                                     *)
(*                                                                         *)
(* A string is a sequence of bytes.  An ASCII byte is written as the      *)
(* one-character string it encodes; the two bytes of the character        *)
(* U+00E9 are written "C3" and "A9".  Offsets are byte offsets and start  *)
(* at 0 as in the source, so byte number i of s is s[i + 1].              *)
(*                                                                         *)
(* A call that panics leaves the state as the code had changed it when    *)
(* the panic fired and returns Panic(message); a caller that catches the  *)
(* unwinding can go on using the object.                                  *)
(***************************************************************************)
EXTENDS Integers, Sequences, FiniteSets, TLC

VARIABLES
    tSource,        \* Tokenizer.source
    tPattern,       \* the pattern of the last Tokenizer.tokenize call
    tSlices,        \* what matched_slices returned in that call
    tResult,        \* what tokenize returned in that call
    source,         \* Scanner.source
    index,          \* Scanner.index
    length,         \* Scanner.length
    stream,         \* the tokens that Tokens has yielded so far
    calls,          \* how many times Tokens.next has been called
    tokens,         \* Parser.tokens
    current_index,  \* Parser.current_index
    jumps,          \* the last two Parser.jump calls: offset, cursor before, result
    variables,      \* Context.variables
    current_scope,  \* Context.current_scope
    saved,          \* the Context as it was at each push not yet popped
    dropped,        \* the frame that the last call removed, when it was a pop
    last            \* the last call: its name, its arguments, what it returned

vars == <<tSource, tPattern, tSlices, tResult, source, index, length, stream,
          calls, tokens, current_index, jumps, variables, current_scope, saved,
          dropped, last>>

tokenizerVars == <<tSource, tPattern, tSlices, tResult>>
scannerVars   == <<source, index, length, stream, calls>>
parserVars    == <<tokens, current_index, jumps>>
contextVars   == <<variables, current_scope, saved, dropped>>

-----------------------------------------------------------------------------
(* Bounds of the model *)

\* width in bits of the machine word (usize, isize), scaled down
WordBits == 6
\* longest enumerated Tokenizer source, in characters
MaxTemplateLen == 4
\* longest enumerated Scanner and Lexer source, in characters
MaxTextLen == 3
\* deepest stack of scopes above the base scope
MaxPush == 2
\* calls of Tokens.next followed beyond one per byte of the source
ExtraCalls == 2

Pow2(n) == 2 ^ n
USIZE_MAX == Pow2(WordBits) - 1
ISIZE_MAX == Pow2(WordBits - 1) - 1
ISIZE_MIN == 0 - Pow2(WordBits - 1)

-----------------------------------------------------------------------------
(* Option and panic values *)

None == [some |-> FALSE]
Some(v) == [some |-> TRUE, value |-> v]
IsSome(o) == o.some
Panic(msg) == [panic |-> msg]
IsPanic(r) == "panic" \in DOMAIN r
Unit == [unit |-> TRUE]

NoCall == [op |-> "new", ret |-> Unit]

-----------------------------------------------------------------------------
(* Strings *)

Min(a, b) == IF a <= b THEN a ELSE b

\* The byte at offset i of s, "" past the end.
At(s, i) == IF i >= 0 /\ i < Len(s) THEN s[i + 1] ELSE ""

\* &s[from..to]
Slice(s, from, to) == SubSeq(s, from + 1, to)

\* The bytes that continue a character begun by an earlier byte.
ContinuationBytes == {"A9"}

\* str::is_char_boundary
IsCharBoundary(s, i) ==
    \/ i = 0
    \/ i = Len(s)
    \/ i > 0 /\ i < Len(s) /\ At(s, i) \notin ContinuationBytes

\* The encoded width of the character that starts at offset i.
CharWidth(s, i) == IF At(s, i) = "C3" THEN 2 ELSE 1

\* Whether the bytes of lit stand at offset i of s.
StartsWith(s, i, lit) ==
    /\ i + Len(lit) <= Len(s)
    /\ \A k \in 1..Len(lit) : s[i + k] = lit[k]

\* Every string of at most n of the characters chars.
RECURSIVE StringsOf(_, _)
StringsOf(chars, n) ==
    IF n = 0 THEN {<<>>}
    ELSE LET shorter == StringsOf(chars, n - 1)
         IN  shorter \cup {s \o c : s \in shorter, c \in chars}

-----------------------------------------------------------------------------
(* Regular expressions: the patterns of the source and of its callers, each *)
(* matched the way the regex crate matches it (leftmost, the first          *)
(* alternative that matches, greedy unless marked lazy).                     *)

\* [0-9]
Digits == {"0", "1", "2", "3", "4", "5", "6", "7", "8", "9"}

\* [a-zA-Z_]
IdentStart ==
    {"a", "b", "c", "d", "e", "f", "g", "h", "i", "j", "k", "l", "m", "n",
     "o", "p", "q", "r", "s", "t", "u", "v", "w", "x", "y", "z", "A", "B",
     "C", "D", "E", "F", "G", "H", "I", "J", "K", "L", "M", "N", "O", "P",
     "Q", "R", "S", "T", "U", "V", "W", "X", "Y", "Z", "_"}

\* char::is_whitespace
Whitespace == {" ", "\t", "\n", "\r"}

\* Width of the \w character at offset i, 0 when there is none.
WordLen(s, i) ==
    IF At(s, i) \in IdentStart \cup Digits THEN 1
    ELSE IF At(s, i) = "C3" /\ At(s, i + 1) = "A9" THEN 2
    ELSE 0

\* \d* from offset i: where the run of digits ends.
RECURSIVE DigitsEnd(_, _)
DigitsEnd(s, i) == IF At(s, i) \in Digits THEN DigitsEnd(s, i + 1) ELSE i

\* \w* from offset i.
RECURSIVE WordsEnd(_, _)
WordsEnd(s, i) ==
    IF WordLen(s, i) > 0 THEN WordsEnd(s, i + WordLen(s, i)) ELSE i

\* [\w-]* from offset i.
RECURSIVE IdentTailEnd(_, _)
IdentTailEnd(s, i) ==
    IF At(s, i) = "-" THEN IdentTailEnd(s, i + 1)
    ELSE IF WordLen(s, i) > 0 THEN IdentTailEnd(s, i + WordLen(s, i))
    ELSE i

\* [^q]*q from offset i: the offset after the first q, -1 when there is none.
RECURSIVE QuoteEnd(_, _, _)
QuoteEnd(s, i, q) ==
    IF i >= Len(s) THEN -1
    ELSE IF At(s, i) = q THEN i + 1
    ELSE QuoteEnd(s, i + 1, q)

\* .*? followed by close, from offset i: the offset of the first close that
\* no newline precedes, -1 when there is none.
RECURSIVE LazyUntil(_, _, _)
LazyUntil(s, i, close) ==
    IF StartsWith(s, i, close) THEN i
    ELSE IF i >= Len(s) \/ At(s, i) = "\n" THEN -1
    ELSE LazyUntil(s, i + 1, close)

\* ^(==|!=|<>|<=?|>=?|contains)
MatchComparison(s, i) ==
    IF StartsWith(s, i, <<"=", "=">>) THEN i + 2
    ELSE IF StartsWith(s, i, <<"!", "=">>) THEN i + 2
    ELSE IF StartsWith(s, i, <<"<", ">">>) THEN i + 2
    ELSE IF At(s, i) = "<" THEN (IF At(s, i + 1) = "=" THEN i + 2 ELSE i + 1)
    ELSE IF At(s, i) = ">" THEN (IF At(s, i + 1) = "=" THEN i + 2 ELSE i + 1)
    ELSE IF StartsWith(s, i, <<"c", "o", "n", "t", "a", "i", "n", "s">>) THEN i + 8
    ELSE -1

\* ^'[^']*' and ^"[^"]*"
MatchQuoted(s, i, q) == IF At(s, i) = q THEN QuoteEnd(s, i + 1, q) ELSE -1

\* ^-?\d+(\.\d+)?
MatchNumber(s, i) ==
    LET d  == IF At(s, i) = "-" THEN i + 1 ELSE i
        e  == DigitsEnd(s, d)
        f  == DigitsEnd(s, e + 1)
    IN  IF e = d THEN -1
        ELSE IF At(s, e) = "." /\ f > e + 1 THEN f
        ELSE e

\* ^[a-zA-Z_][\w-]*\??
MatchIdentifier(s, i) ==
    IF At(s, i) \notin IdentStart THEN -1
    ELSE LET e == IdentTailEnd(s, i + 1)
         IN  IF At(s, e) = "?" THEN e + 1 ELSE e

\* ^\.\.
MatchRangeOp(s, i) == IF StartsWith(s, i, <<".", ".">>) THEN i + 2 ELSE -1

\* (\{%.*?%\}|\{\{.*?\}\}?|\{\{|\{%)
MatchTemplate(s, i) ==
    LET block == LazyUntil(s, i + 2, <<"%", "}">>)
        brace == LazyUntil(s, i + 2, <<"}">>)
    IN  IF StartsWith(s, i, <<"{", "%">>) /\ block # -1 THEN block + 2
        ELSE IF StartsWith(s, i, <<"{", "{">>) /\ brace # -1
             THEN (IF At(s, brace + 1) = "}" THEN brace + 2 ELSE brace + 1)
        ELSE IF StartsWith(s, i, <<"{", "{">>) THEN i + 2
        ELSE IF StartsWith(s, i, <<"{", "%">>) THEN i + 2
        ELSE -1

COMPARISON            == "^(==|!=|<>|<=?|>=?|contains)"
SINGLE_STRING_LITERAL == "^'[^']*'"
DOUBLE_STRING_LITERAL == "^\"[^\"]*\""
NUMBER_LITERAL        == "^-?\\d+(\\.\\d+)?"
IDENTIFIER            == "^[a-zA-Z_][\\w-]*\\??"
RANGE_OP              == "^\\.\\."
TEMPLATE              == "(\\{%.*?%\\}|\\{\\{.*?\\}\\}?|\\{\\{|\\{%)"
\* patterns of the callers: of the Scanner's tests, and two that a caller
\* can pass, one without the anchor and one that matches the empty string
WORDS                 == "^\\w+"
DIGITS                == "^\\d+"
DIGITS_AHEAD          == "\\d+"
A_STAR                == "a*"

\* Whether the pattern starts with ^.
Anchored(pattern) ==
    pattern \in {COMPARISON, SINGLE_STRING_LITERAL, DOUBLE_STRING_LITERAL,
                 NUMBER_LITERAL, IDENTIFIER, RANGE_OP, WORDS, DIGITS}

\* a* from offset i.
RECURSIVE AsEnd(_, _)
AsEnd(s, i) == IF At(s, i) = "a" THEN AsEnd(s, i + 1) ELSE i

\* The end of the match of the pattern (its ^ apart) that starts at offset i,
\* -1 when none starts there.
MatchAt(pattern, s, i) ==
    IF pattern = COMPARISON THEN MatchComparison(s, i)
    ELSE IF pattern = SINGLE_STRING_LITERAL THEN MatchQuoted(s, i, "'")
    ELSE IF pattern = DOUBLE_STRING_LITERAL THEN MatchQuoted(s, i, "\"")
    ELSE IF pattern = NUMBER_LITERAL THEN MatchNumber(s, i)
    ELSE IF pattern = IDENTIFIER THEN MatchIdentifier(s, i)
    ELSE IF pattern = RANGE_OP THEN MatchRangeOp(s, i)
    ELSE IF pattern = TEMPLATE THEN MatchTemplate(s, i)
    ELSE IF pattern = WORDS
         THEN (IF WordsEnd(s, i) > i THEN WordsEnd(s, i) ELSE -1)
    ELSE IF pattern \in {DIGITS, DIGITS_AHEAD}
         THEN (IF DigitsEnd(s, i) > i THEN DigitsEnd(s, i) ELSE -1)
    ELSE AsEnd(s, i)

\* Regex::find_at: the leftmost match that starts at or after offset from, as
\* Some(<<start, end>>); ^ matches at offset 0 only.
RECURSIVE FindAt(_, _, _)
FindAt(pattern, s, from) ==
    IF from > Len(s) THEN None
    ELSE IF Anchored(pattern) /\ from > 0 THEN None
    ELSE IF MatchAt(pattern, s, from) # -1
         THEN Some(<<from, MatchAt(pattern, s, from)>>)
    ELSE IF Anchored(pattern) \/ from >= Len(s) THEN None
    ELSE FindAt(pattern, s, from + CharWidth(s, from))

\* Regex::captures followed by Captures::pos(0)
Captures(pattern, s) == FindAt(pattern, s, 0)

\* Regex::find_iter: the successive matches that do not overlap; an empty
\* match right after the previous match is skipped.
RECURSIVE FindIter(_, _, _, _)
FindIter(pattern, text, last_end, last_match) ==
    IF last_end > Len(text) THEN <<>>
    ELSE LET m == FindAt(pattern, text, last_end)
         IN  IF ~IsSome(m) THEN <<>>
             ELSE IF m.value[1] = m.value[2] /\ last_match = last_end
                  THEN (IF last_end >= Len(text) THEN <<>>
                        ELSE FindIter(pattern, text,
                                      last_end + CharWidth(text, last_end), last_match))
             ELSE <<m.value>> \o FindIter(pattern, text, m.value[2], m.value[2])

-----------------------------------------------------------------------------
(* Tokenizer: src/src/tokenizer.rs.  A slice is <<start, end>>. *)

\* The order of (usize, usize): by start, then by end.
SliceLeq(a, b) == a[1] < b[1] \/ (a[1] = b[1] /\ a[2] <= b[2])

\* One step of a sort: slice x put in its place in the sorted list.
RECURSIVE InsertSorted(_, _)
InsertSorted(x, sorted) ==
    IF sorted = <<>> THEN <<x>>
    ELSE IF SliceLeq(x, Head(sorted)) THEN <<x>> \o sorted
    ELSE <<Head(sorted)>> \o InsertSorted(x, Tail(sorted))

\* slices.sort()
RECURSIVE Sort(_)
Sort(slices) ==
    IF slices = <<>> THEN <<>>
    ELSE InsertSorted(Head(slices), Sort(Tail(slices)))

\* Tokenizer::missing_first_slice
missing_first_slice(src, slices) ==
    LET pos == slices[1][1]
    IN  IF pos = 0 THEN None ELSE Some(<<0, pos>>)

\* Tokenizer::missing_last_slice that takes the end of the source for covered.
missing_last_slice_dropped(src, slices) == None

\* Tokenizer::missing_last_slice
missing_last_slice(src, slices) ==
    LET last_slice == slices[Len(slices)]
        len        == Len(src)
    IN  IF last_slice[2] = len THEN None ELSE Some(<<last_slice[2], len>>)

\* The loop of Tokenizer::missing_middle_slices, from slice number i on
\* (i counts from 1; the loop's index is i - 1).
RECURSIVE MiddleFrom(_, _)
MiddleFrom(slices, i) ==
    IF i > Len(slices) THEN <<>>
    ELSE IF i - 1 = Len(slices) - 1 THEN MiddleFrom(slices, i + 1)
    ELSE LET right == slices[i][2]
             edge  == slices[i + 1][1]
         IN  (IF right # edge THEN <<<<right, edge>>>> ELSE <<>>)
                 \o MiddleFrom(slices, i + 1)

\* Tokenizer::missing_middle_slices that finds no gap.
missing_middle_slices_none(src, slices) == <<>>

\* Tokenizer::missing_middle_slices
missing_middle_slices(src, slices) == MiddleFrom(slices, 1)

\* An Option pushed on a Vec.
PushSome(vec, option) == IF IsSome(option) THEN Append(vec, option.value) ELSE vec

\* Tokenizer::find_missing_slices without the early return on no match.
find_missing_slices_no_whole(src, slices) ==
    IF slices = <<>> THEN <<>>
    ELSE PushSome(PushSome(missing_middle_slices(src, slices),
                           missing_first_slice(src, slices)),
                  missing_last_slice(src, slices))

\* Tokenizer::find_missing_slices
find_missing_slices(src, slices) ==
    IF slices = <<>> THEN <<<<0, Len(src)>>>>
    ELSE PushSome(PushSome(missing_middle_slices(src, slices),
                           missing_first_slice(src, slices)),
                  missing_last_slice(src, slices))

\* Tokenizer::matched_slices without the sort of the merged slices.
matched_slices_unsorted(src, pattern) ==
    LET found   == FindIter(pattern, src, 0, -1)
        missing == find_missing_slices(src, found)
    IN  found \o missing

\* Tokenizer::matched_slices
matched_slices(src, pattern) ==
    LET found   == FindIter(pattern, src, 0, -1)
        missing == find_missing_slices(src, found)
    IN  Sort(found \o missing)

\* Tokenizer::tokenize, the substrings of the slices
tokenize(src, pattern) ==
    LET slices == matched_slices(src, pattern)
    IN  [i \in 1..Len(slices) |-> Slice(src, slices[i][1], slices[i][2])]

\* Tokenizer::new
TokenizerNew(src) ==
    /\ tSource = src
    /\ tPattern = "none"
    /\ tSlices = <<>>
    /\ tResult = <<>>

\* A call of Tokenizer::tokenize
Tokenize(pattern) ==
    /\ tPattern' = pattern
    /\ tSlices' = matched_slices(tSource, pattern)
    /\ tResult' = tokenize(tSource, pattern)
    /\ last' = [op |-> "tokenize", ret |-> Unit]
    /\ UNCHANGED tSource

-----------------------------------------------------------------------------
(* Scanner: src/src/scanner.rs.  Each method is an operator of the source   *)
(* and the index it is called with; it gives the index it leaves and what   *)
(* it returns.                                                               *)

BoundaryPanic == Panic("byte index is not a char boundary")
OverflowPanic == Panic("attempt to add with overflow")

Outcome(idx, ret) == [index |-> idx, ret |-> ret]

\* Scanner::new
ScannerNew(src) ==
    /\ source = src
    /\ index = 0
    /\ length = Len(src)

\* Scanner::position
Position(src, idx) == Min(idx, Len(src))

\* Scanner::is_eos
IsEos(src, idx) == Position(src, idx) = Len(src)

\* Scanner::skip, the index it sets when position + n fits a usize
SkipIndex(src, idx, n) == Min(Position(src, idx) + n, Len(src))

\* Scanner::raw: &self.source[self.position()..]
Raw(src, idx) == Slice(src, Position(src, idx), Len(src))

\* Whether the slice that Scanner::raw takes panics.
RawPanics(src, idx) == ~IsCharBoundary(src, Position(src, idx))

\* string.len() - string.trim_left_matches(char::is_whitespace).len()
RECURSIVE LeadingChars(_)
LeadingChars(string) ==
    IF string # <<>> /\ Head(string) \in Whitespace
    THEN 1 + LeadingChars(Tail(string))
    ELSE 0

\* Scanner::skip_whitespace that leaves the whitespace where it is.
SkipWhitespaceNothing(src, idx) == SkipIndex(src, idx, 0)

\* Scanner::skip_whitespace, the index it sets
SkipWhitespace(src, idx) == SkipIndex(src, idx, LeadingChars(Raw(src, idx)))

\* Scanner::rest
Rest(src, idx) ==
    IF IsEos(src, idx) THEN Outcome(idx, None)
    ELSE IF RawPanics(src, idx) THEN Outcome(idx, BoundaryPanic)
    ELSE Outcome(idx, Some(Raw(src, idx)))

\* Scanner::get_char
GetChar(src, idx) ==
    IF IsEos(src, idx) THEN Outcome(idx, None)
    ELSE IF RawPanics(src, idx) THEN Outcome(idx, BoundaryPanic)
    ELSE IF ~IsCharBoundary(Raw(src, idx), 1) THEN Outcome(idx, BoundaryPanic)
    ELSE Outcome(SkipIndex(src, idx, 1), Some(Slice(Raw(src, idx), 0, 1)))

\* Scanner::get_match: pos is captures.pos(0), of which the end alone is read
GetMatch(src, idx, rest, pos) ==
    LET count     == pos[2]
        matched   == Slice(rest, 0, count)
        remaining == Slice(rest, count, Len(rest))
    IN  Outcome(SkipIndex(src, idx, count + LeadingChars(remaining)), Some(matched))

\* Scanner::scan
Scan(src, idx, pattern) ==
    IF RawPanics(src, idx) THEN Outcome(idx, BoundaryPanic)
    ELSE LET skipped  == SkipWhitespace(src, idx)
             rest     == Raw(src, skipped)
             captures == Captures(pattern, rest)
         IN  IF IsSome(captures)
             THEN GetMatch(src, skipped, rest, captures.value)
             ELSE Outcome(skipped, None)

\* Scanner::check that consumes what it matches, as scan does.
CheckConsumes(src, idx, pattern) ==
    LET scanned == Scan(src, idx, pattern)
    IN  IF IsPanic(scanned.ret) THEN scanned
        ELSE Outcome(scanned.index, IsSome(scanned.ret))

\* Scanner::check
Check(src, idx, pattern) ==
    IF RawPanics(src, idx) THEN Outcome(idx, BoundaryPanic)
    ELSE LET skipped == SkipWhitespace(src, idx)
         IN  Outcome(skipped, IsSome(Captures(pattern, Raw(src, skipped))))

-----------------------------------------------------------------------------
(* Lexer and Tokens: src/src/lexer.rs *)

\* Tokens.specials with the kinds of the two parentheses exchanged.
specials_parentheses_exchanged ==
    [c \in {"|", ".", ":", ",", "[", "]", "(", ")", "?", "-"} |->
        CASE c = "|" -> "Pipe"
          [] c = "." -> "Dot"
          [] c = ":" -> "Colon"
          [] c = "," -> "Comma"
          [] c = "[" -> "OpenSquare"
          [] c = "]" -> "CloseSquare"
          [] c = "(" -> "CloseRound"
          [] c = ")" -> "OpenRound"
          [] c = "?" -> "Question"
          [] c = "-" -> "Dash"]

\* Tokens.specials
specials ==
    [c \in {"|", ".", ":", ",", "[", "]", "(", ")", "?", "-"} |->
        CASE c = "|" -> "Pipe"
          [] c = "." -> "Dot"
          [] c = ":" -> "Colon"
          [] c = "," -> "Comma"
          [] c = "[" -> "OpenSquare"
          [] c = "]" -> "CloseSquare"
          [] c = "(" -> "OpenRound"
          [] c = ")" -> "CloseRound"
          [] c = "?" -> "Question"
          [] c = "-" -> "Dash"]

\* Tokens.matchers with the identifiers tried before the comparisons.
matchers_identifier_first ==
    <<IDENTIFIER, COMPARISON, SINGLE_STRING_LITERAL, DOUBLE_STRING_LITERAL,
      NUMBER_LITERAL, RANGE_OP>>

\* Tokens.matchers
matchers ==
    <<COMPARISON, SINGLE_STRING_LITERAL, DOUBLE_STRING_LITERAL, NUMBER_LITERAL,
      IDENTIFIER, RANGE_OP>>

\* Token kinds
Token ==
    {"Comparison", "Identifier", "Number", "String", "Range", "Pipe", "Dot",
     "Colon", "Comma", "OpenSquare", "CloseSquare", "OpenRound", "CloseRound",
     "Question", "Dash"}

\* LexedToken
Lexed(type, value) == <<type, value>>

\* Tokens::token_for
token_for(pattern, value) ==
    CASE pattern = COMPARISON            -> Lexed("Comparison", value)
      [] pattern = SINGLE_STRING_LITERAL -> Lexed("String", value)
      [] pattern = DOUBLE_STRING_LITERAL -> Lexed("String", value)
      [] pattern = NUMBER_LITERAL        -> Lexed("Number", value)
      [] pattern = IDENTIFIER            -> Lexed("Identifier", value)
      [] pattern = RANGE_OP              -> Lexed("Range", <<".", ".">>)

\* self.matchers.iter().find(|&m| self.scanner.check(m)), from matcher k on:
\* the index the checks leave, and the first matcher whose check is true (0
\* when none is).
RECURSIVE FindMatcher(_, _, _)
FindMatcher(src, idx, k) ==
    IF k > Len(matchers) THEN [index |-> idx, found |-> 0]
    ELSE LET c == Check(src, idx, matchers[k])
         IN  IF c.ret = TRUE THEN [index |-> c.index, found |-> k]
             ELSE FindMatcher(src, c.index, k + 1)

\* Tokens::matched_token
matched_token(src, idx, pattern) ==
    LET scanned == Scan(src, idx, pattern)
    IN  Outcome(scanned.index, Some(token_for(pattern, scanned.ret.value)))

\* Tokens::matched_special
matched_special(src, idx) ==
    LET got == GetChar(src, idx)
    IN  IF IsPanic(got.ret) \/ ~IsSome(got.ret) THEN got
        ELSE IF got.ret.value[1] \in DOMAIN specials
             THEN Outcome(got.index,
                          Some(Lexed(specials[got.ret.value[1]], got.ret.value)))
        ELSE Outcome(got.index,
                     Panic("internal error: entered unreachable code: Syntax Error"))

\* Tokens::next_match, which is all of Iterator::next
next_match(src, idx) ==
    LET m == FindMatcher(src, idx, 1)
    IN  IF m.found # 0 THEN matched_token(src, m.index, matchers[m.found])
        ELSE matched_special(src, m.index)

\* lexer.tokens().collect(): the tokens up to the end of the text, or the
\* panic of the call that fails.
RECURSIVE Collect(_, _, _)
Collect(src, idx, acc) ==
    LET n == next_match(src, idx)
    IN  IF IsPanic(n.ret) THEN n.ret
        ELSE IF ~IsSome(n.ret) THEN acc
        ELSE Collect(src, n.index, Append(acc, n.ret.value))

-----------------------------------------------------------------------------
(* The calls on a Scanner and on the Tokens of a Lexer, as actions.  The    *)
(* call's name, its argument, the index it started from and what it         *)
(* returned are kept in last.                                                *)

Called(op, arg, outcome) ==
    /\ index' = outcome.index
    /\ last' = [op |-> op, arg |-> arg, from |-> index, ret |-> outcome.ret]
    /\ stream' = IF op = "next" /\ ~IsPanic(outcome.ret) /\ IsSome(outcome.ret)
                 THEN Append(stream, outcome.ret.value)
                 ELSE stream
    /\ calls' = IF op = "next" THEN calls + 1 ELSE calls
    /\ UNCHANGED <<source, length>>

\* Scanner::skip.  position + n can exceed a usize: a build that checks
\* overflow panics there, a build that does not wraps the sum.
Skip(n) ==
    IF Position(source, index) + n <= USIZE_MAX
    THEN Called("skip", n, Outcome(SkipIndex(source, index, n), Unit))
    ELSE \/ Called("skip", n, Outcome(index, OverflowPanic))
         \/ Called("skip", n,
                   Outcome(Min((Position(source, index) + n) % Pow2(WordBits),
                               length), Unit))

RestCall == Called("rest", "", Rest(source, index))

GetCharCall == Called("get_char", "", GetChar(source, index))

ScanCall(pattern) == Called("scan", pattern, Scan(source, index, pattern))

CheckCall(pattern) == Called("check", pattern, Check(source, index, pattern))

PositionCall ==
    Called("position", "", Outcome(index, Position(source, index)))

IsEosCall == Called("is_eos", "", Outcome(index, IsEos(source, index)))

\* Iterator::next of Tokens
TokensNext ==
    /\ calls < Len(source) + ExtraCalls
    /\ Called("next", "", next_match(source, index))

\* Lexer::tokens: a Tokens over the Lexer's own Scanner
LexerTokens == Called("tokens", "", Outcome(index, Unit))

-----------------------------------------------------------------------------
(* Parser: src/src/parser.rs *)

\* Parser::new
ParserNew(src) ==
    /\ tokens = Collect(src, 0, <<>>)
    /\ current_index = 0

\* isize::wrapping_add
WrappingAdd(a, b) ==
    ((a + b + Pow2(WordBits - 1)) % Pow2(WordBits)) - Pow2(WordBits - 1)

\* usize as isize
AsIsize(n) == IF n > ISIZE_MAX THEN n - Pow2(WordBits) ELSE n

\* Parser::index_with_offset, with the cursor at cur
index_with_offset_at(cur, offset) ==
    LET idx == WrappingAdd(AsIsize(cur), offset)
    IN  IF idx < 0 THEN None ELSE Some(idx)

\* Parser::index_with_offset
index_with_offset(offset) == index_with_offset_at(current_index, offset)

\* Parser::token_at
token_at(idx) == IF idx < Len(tokens) THEN Some(tokens[idx + 1]) ELSE None

\* Parser::jump that takes a negative offset for no move at all.
JumpForwardOnly(n) ==
    IF n < 0
    THEN /\ last' = [op |-> "jump", n |-> n, ret |-> Unit]
         /\ UNCHANGED <<tokens, current_index>>
    ELSE IF IsSome(index_with_offset(n))
    THEN /\ current_index' = index_with_offset(n).value
         /\ last' = [op |-> "jump", n |-> n, ret |-> Unit]
         /\ UNCHANGED tokens
    ELSE /\ last' = [op |-> "jump", n |-> n,
                     ret |-> Panic("Attempted to jump too far back")]
         /\ UNCHANGED <<tokens, current_index>>

\* Parser::jump
Jump(n) ==
    IF IsSome(index_with_offset(n))
    THEN /\ current_index' = index_with_offset(n).value
         /\ last' = [op |-> "jump", n |-> n, ret |-> Unit]
         /\ UNCHANGED tokens
    ELSE /\ last' = [op |-> "jump", n |-> n,
                     ret |-> Panic("Attempted to jump too far back")]
         /\ UNCHANGED <<tokens, current_index>>

\* Parser::consume that moves the cursor whether or not the kind matches.
ConsumeAlwaysAdvances(token) ==
    LET at == token_at(current_index)
    IN  /\ current_index' = IF IsSome(at) THEN current_index + 1 ELSE current_index
        /\ last' = [op |-> "consume", token |-> token,
                    ret |-> IF IsSome(at) /\ at.value[1] = token
                            THEN Some(at.value[2]) ELSE None]
        /\ UNCHANGED tokens

\* Parser::consume
Consume(token) ==
    LET at     == token_at(current_index)
        string == IF ~IsSome(at) THEN None
                  ELSE IF at.value[1] # token THEN None
                  ELSE Some(at.value[2])
    IN  /\ current_index' = IF IsSome(string) THEN current_index + 1
                            ELSE current_index
        /\ last' = [op |-> "consume", token |-> token, ret |-> string]
        /\ UNCHANGED tokens

\* Parser::type_at
type_at(idx) ==
    IF IsSome(token_at(idx)) THEN Some(token_at(idx).value[1]) ELSE None

\* Parser::is_token
is_token(idx, token) ==
    IF IsSome(token_at(idx)) THEN Some(token_at(idx).value[1] = token)
    ELSE Some(FALSE)

\* Parser::is_current_offset that takes the offset from the start of the
\* tokens and not from the cursor.
is_current_offset_from_start(cur, token, offset) ==
    IF offset < 0 THEN FALSE ELSE is_token(offset, token).value

\* Parser::is_current_offset, with the cursor at cur
is_current_offset(cur, token, offset) ==
    LET idx == index_with_offset_at(cur, offset)
    IN  IF IsSome(idx) THEN is_token(idx.value, token).value ELSE FALSE

\* Parser::is_current, with the cursor at cur
is_current(cur, token) == is_current_offset(cur, token, 0)

\* Parser::consume with the cursor at cur: where it leaves the cursor and
\* what it returns.
consume(cur, token) ==
    LET at == token_at(cur)
    IN  IF IsSome(at) /\ at.value[1] = token
        THEN Outcome(cur + 1, Some(at.value[2]))
        ELSE Outcome(cur, None)

UnwrapPanic == Panic("called Option::unwrap() on a None value")
SyntaxError == Panic("Syntax Error")

\* Option::unwrap of what a call returned: the panic of the call itself, a
\* panic on None, the call's outcome otherwise.
Unwrap(outcome) ==
    IF IsPanic(outcome.ret) THEN outcome
    ELSE IF ~IsSome(outcome.ret) THEN Outcome(outcome.index, UnwrapPanic)
    ELSE outcome

RECURSIVE expression(_), variable(_), range(_), variable_indexes(_, _)

\* The while loop of Parser::variable: value is the text gathered so far.
variable_indexes(cur, value) ==
    IF ~is_current(cur, "OpenSquare") THEN Outcome(cur, Some(value))
    ELSE LET open  == Unwrap(consume(cur, "OpenSquare"))
             inner == Unwrap(expression(open.index))
             close == Unwrap(consume(inner.index, "CloseSquare"))
         IN  IF IsPanic(inner.ret) THEN inner
             ELSE IF IsPanic(close.ret) THEN close
             ELSE variable_indexes(close.index,
                      value \o open.ret.value \o inner.ret.value
                            \o close.ret.value)

\* Parser::variable that takes at most one indexed suffix.
variable_single_index(cur) ==
    LET id == consume(cur, "Identifier")
    IN  IF ~IsSome(id.ret) THEN id
        ELSE LET open  == Unwrap(consume(id.index, "OpenSquare"))
                 inner == Unwrap(expression(open.index))
                 close == Unwrap(consume(inner.index, "CloseSquare"))
                 indexed ==
                     IF ~is_current(id.index, "OpenSquare") THEN id
                     ELSE IF IsPanic(inner.ret) THEN inner
                     ELSE IF IsPanic(close.ret) THEN close
                     ELSE Outcome(close.index,
                              Some(id.ret.value \o open.ret.value
                                     \o inner.ret.value \o close.ret.value))
                 dot == Unwrap(consume(indexed.index, "Dot"))
                 sub == Unwrap(variable(dot.index))
             IN  IF IsPanic(indexed.ret) THEN indexed
                 ELSE IF ~is_current(indexed.index, "Dot") THEN indexed
                 ELSE IF IsPanic(sub.ret) THEN sub
                 ELSE Outcome(sub.index,
                          Some(indexed.ret.value \o dot.ret.value
                                 \o sub.ret.value))

\* Parser::variable
variable(cur) ==
    LET id == consume(cur, "Identifier")
    IN  IF ~IsSome(id.ret) THEN id
        ELSE LET indexed == variable_indexes(id.index, id.ret.value)
                 dot     == Unwrap(consume(indexed.index, "Dot"))
                 sub     == Unwrap(variable(dot.index))
             IN  IF IsPanic(indexed.ret) THEN indexed
                 ELSE IF ~is_current(indexed.index, "Dot") THEN indexed
                 ELSE IF IsPanic(sub.ret) THEN sub
                 ELSE Outcome(sub.index,
                          Some(indexed.ret.value \o dot.ret.value
                                 \o sub.ret.value))

\* Parser::range that returns without consuming the closing parenthesis.
range_left_open(cur) ==
    LET open == consume(cur, "OpenRound")
    IN  IF ~IsSome(open.ret) THEN open
        ELSE LET lo == Unwrap(expression(open.index))
                 op == Unwrap(consume(lo.index, "Range"))
                 hi == Unwrap(expression(op.index))
             IN  IF IsPanic(lo.ret) THEN lo
                 ELSE IF IsPanic(op.ret) THEN op
                 ELSE IF IsPanic(hi.ret) THEN hi
                 ELSE Outcome(hi.index,
                          Some(open.ret.value \o lo.ret.value \o op.ret.value
                                 \o hi.ret.value))

\* Parser::range
range(cur) ==
    LET open == consume(cur, "OpenRound")
    IN  IF ~IsSome(open.ret) THEN open
        ELSE LET lo    == Unwrap(expression(open.index))
                 op    == Unwrap(consume(lo.index, "Range"))
                 hi    == Unwrap(expression(op.index))
                 close == Unwrap(consume(hi.index, "CloseRound"))
             IN  IF IsPanic(lo.ret) THEN lo
                 ELSE IF IsPanic(op.ret) THEN op
                 ELSE IF IsPanic(hi.ret) THEN hi
                 ELSE IF IsPanic(close.ret) THEN close
                 ELSE Outcome(close.index,
                          Some(open.ret.value \o lo.ret.value \o op.ret.value
                                 \o hi.ret.value \o close.ret.value))

\* Parser::expression that returns none on a token that starts no expression.
expression_lenient(cur) ==
    LET token_type == type_at(cur)
    IN  IF ~IsSome(token_type) THEN Outcome(cur, None)
        ELSE IF token_type.value = "Identifier" THEN variable(cur)
        ELSE IF token_type.value = "OpenRound" THEN range(cur)
        ELSE IF token_type.value \in {"String", "Number"}
             THEN consume(cur, token_type.value)
        ELSE Outcome(cur, None)

\* Parser::expression
expression(cur) ==
    LET token_type == type_at(cur)
    IN  IF ~IsSome(token_type) THEN Outcome(cur, None)
        ELSE IF token_type.value = "Identifier" THEN variable(cur)
        ELSE IF token_type.value = "OpenRound" THEN range(cur)
        ELSE IF token_type.value \in {"String", "Number"}
             THEN consume(cur, token_type.value)
        ELSE Outcome(cur, SyntaxError)

\* A call of Parser::expression
Expression ==
    LET outcome == expression(current_index)
    IN  /\ current_index' = outcome.index
        /\ last' = [op |-> "expression", from |-> current_index,
                    ret |-> outcome.ret]
        /\ UNCHANGED tokens

\* A call of Parser::is_current_offset
IsCurrentOffset(token, offset) ==
    /\ last' = [op |-> "is_current_offset", token |-> token,
                offset |-> offset, from |-> current_index,
                ret |-> is_current_offset(current_index, token, offset)]
    /\ UNCHANGED <<tokens, current_index>>

\* A call of Parser::is_current
IsCurrent(token) ==
    /\ last' = [op |-> "is_current", token |-> token, offset |-> 0,
                from |-> current_index,
                ret |-> is_current(current_index, token)]
    /\ UNCHANGED <<tokens, current_index>>

-----------------------------------------------------------------------------
(* Context: src/src/context.rs *)

Keys == {"x", "y"}

\* The values a caller hands to add<T: Any>, with their Rust type.
RawValues ==
    { [type |-> "&str", v |-> "face"], [type |-> "f64", v |-> "123.0"],
      [type |-> "bool", v |-> "true"], [type |-> "i32", v |-> "123"] }

EmptyMap == [k \in {} |-> None]

\* HashMap::insert
Insert(map, key, val) ==
    [k \in (DOMAIN map) \cup {key} |-> IF k = key THEN val ELSE map[k]]

\* HashMap::get
Get(map, key) == IF key \in DOMAIN map THEN Some(map[key]) ELSE None

\* Context::new
ContextNew ==
    /\ variables = <<EmptyMap>>
    /\ current_scope = 0

\* Context::current_variables: the frame at index current_scope (0-based)
current_variables == variables[current_scope + 1]

\* The downcast chain of Context::add with one more link, which takes an i32
\* for a Number.
DowncastCoercing(raw) ==
    IF raw.type = "&str" THEN Some([kind |-> "String", v |-> raw.v])
    ELSE IF raw.type = "f64" THEN Some([kind |-> "Number", v |-> raw.v])
    ELSE IF raw.type = "bool" THEN Some([kind |-> "Boolean", v |-> raw.v])
    ELSE IF raw.type = "i32" THEN Some([kind |-> "Number", v |-> raw.v])
    ELSE None

\* The downcast chain of Context::add: the Variable stored for a value, or
\* None when no downcast succeeds.
Downcast(raw) ==
    IF raw.type = "&str" THEN Some([kind |-> "String", v |-> raw.v])
    ELSE IF raw.type = "f64" THEN Some([kind |-> "Number", v |-> raw.v])
    ELSE IF raw.type = "bool" THEN Some([kind |-> "Boolean", v |-> raw.v])
    ELSE None

\* Context::add that writes into the base frame.
AddToBase(key, raw) ==
    /\ IF IsSome(Downcast(raw))
       THEN /\ variables' = [variables EXCEPT ![1] =
                                Insert(variables[1], key, Downcast(raw).value)]
            /\ last' = [op |-> "add", key |-> key, raw |-> raw, ret |-> Unit]
       ELSE /\ variables' = variables
            /\ last' = [op |-> "add", key |-> key, raw |-> raw,
                        ret |-> Panic("Tried to add unknown type to context")]
    /\ UNCHANGED current_scope

\* Context::add
Add(key, raw) ==
    /\ IF IsSome(Downcast(raw))
       THEN /\ variables' = [variables EXCEPT ![current_scope + 1] =
                                Insert(current_variables, key, Downcast(raw).value)]
            /\ last' = [op |-> "add", key |-> key, raw |-> raw, ret |-> Unit]
       ELSE /\ variables' = variables
            /\ last' = [op |-> "add", key |-> key, raw |-> raw,
                        ret |-> Panic("Tried to add unknown type to context")]
    /\ UNCHANGED current_scope

\* The loop of Context::lookup over variables.iter().rev(), from frame i down.
RECURSIVE LookupFrom(_, _, _)
LookupFrom(vs, i, key) ==
    IF i = 0 THEN None
    ELSE IF IsSome(Get(vs[i], key)) THEN Get(vs[i], key)
    ELSE LookupFrom(vs, i - 1, key)

\* The loop of Context::lookup without .rev(): the base frame first.
RECURSIVE LookupFromBase(_, _, _)
LookupFromBase(vs, i, key) ==
    IF i > Len(vs) THEN None
    ELSE IF IsSome(Get(vs[i], key)) THEN Get(vs[i], key)
    ELSE LookupFromBase(vs, i + 1, key)

LookupInBaseFirst(vs, key) == LookupFromBase(vs, 1, key)

LookupIn(vs, key) == LookupFrom(vs, Len(vs), key)

\* Context::lookup
Lookup(key) ==
    /\ last' = [op |-> "lookup", key |-> key, ret |-> LookupIn(variables, key)]
    /\ UNCHANGED <<variables, current_scope>>

\* Context::push that forgets to move current_scope.
PushKeepsScope ==
    /\ current_scope < MaxPush
    /\ Len(variables) <= MaxPush
    /\ variables' = Append(variables, EmptyMap)
    /\ current_scope' = current_scope
    /\ last' = [op |-> "push", ret |-> Unit]

\* Context::push
Push ==
    /\ current_scope < MaxPush
    /\ variables' = Append(variables, EmptyMap)
    /\ current_scope' = current_scope + 1
    /\ last' = [op |-> "push", ret |-> Unit]

\* Context::pop without the underflow guard: on the base frame it drops the
\* frame's bindings and returns normally.
PopUnguarded ==
    /\ variables' = IF current_scope >= 1
                    THEN SubSeq(variables, 1, Len(variables) - 1)
                    ELSE <<EmptyMap>>
    /\ current_scope' = IF current_scope >= 1 THEN current_scope - 1 ELSE 0
    /\ last' = [op |-> "pop", ret |-> Unit]

\* Context::pop that hands the bindings of the frame it removes to the frame
\* below.
PopLeaksBindings ==
    IF current_scope >= 1
    THEN /\ variables' =
                [SubSeq(variables, 1, Len(variables) - 1)
                    EXCEPT ![Len(variables) - 1] =
                        [k \in DOMAIN variables[Len(variables) - 1]
                                  \cup DOMAIN variables[Len(variables)] |->
                            IF k \in DOMAIN variables[Len(variables)]
                            THEN variables[Len(variables)][k]
                            ELSE variables[Len(variables) - 1][k]]]
         /\ current_scope' = current_scope - 1
         /\ last' = [op |-> "pop", ret |-> Unit]
    ELSE /\ UNCHANGED <<variables, current_scope>>
         /\ last' = [op |-> "pop", ret |-> Panic("tried to pop one too many scopes!")]

\* Context::pop
Pop ==
    IF current_scope >= 1
    THEN /\ variables' = SubSeq(variables, 1, Len(variables) - 1)
         /\ current_scope' = current_scope - 1
         /\ last' = [op |-> "pop", ret |-> Unit]
    ELSE /\ UNCHANGED <<variables, current_scope>>
         /\ last' = [op |-> "pop", ret |-> Panic("tried to pop one too many scopes!")]

-----------------------------------------------------------------------------
(* The values of the components a specification leaves alone *)

TokenizerIdle ==
    /\ tSource = <<>>
    /\ tPattern = "none"
    /\ tSlices = <<>>
    /\ tResult = <<>>

ScannerIdle ==
    /\ source = <<>>
    /\ index = 0
    /\ length = 0
    /\ stream = <<>>
    /\ calls = 0

ParserIdle ==
    /\ tokens = <<>>
    /\ current_index = 0
    /\ jumps = <<>>

ContextIdle ==
    /\ variables = <<EmptyMap>>
    /\ current_scope = 0
    /\ saved = <<>>
    /\ dropped = None

-----------------------------------------------------------------------------
(* The Tokenizer over every short template and the templates of the tests *)

TemplateChars == {<<"{">>, <<"%">>, <<"}">>, <<"a">>, <<"\n">>, <<"C3", "A9">>}

\* " {{funk}} {{so}} " and "{%comment%}\nMy\n{%endcomment%}\n", after the tests
TestTemplates ==
    { <<" ", "{", "{", "f", "u", "n", "k", "}", "}", " ",
        "{", "{", "s", "o", "}", "}", " ">>,
      <<"{", "%", "c", "%", "}", "\n", "M", "y", "\n", "{", "%", "e", "%", "}", "\n">>,
      <<"{", "{", "a", "}", "}", "{", "%", "b", "%", "}">> }

Templates == StringsOf(TemplateChars, MaxTemplateLen) \cup TestTemplates

TagPatterns == {TEMPLATE, A_STAR}

InitTokenizer ==
    /\ \E src \in Templates : TokenizerNew(src)
    /\ last = NoCall
    /\ ScannerIdle /\ ParserIdle /\ ContextIdle

NextTokenizer ==
    /\ \E pattern \in TagPatterns : Tokenize(pattern)
    /\ UNCHANGED <<scannerVars, parserVars, contextVars>>

SpecTokenizer == InitTokenizer /\ [][NextTokenizer]_vars

\* The concatenation of a list of strings.
RECURSIVE Concat(_)
Concat(strings) ==
    IF strings = <<>> THEN <<>> ELSE Head(strings) \o Concat(Tail(strings))

\* C1: for every source and every pattern, the substrings that tokenize
\* returns, concatenated in order, are the source.
C1_RoundTrip ==
    last.op = "tokenize" => Concat(tResult) = tSource

\* C1, its case: a source with text before, between and after two tags has
\* been tokenized into five substrings.
C1_Witness ==
    /\ last.op = "tokenize"
    /\ tPattern = TEMPLATE
    /\ Len(tResult) = 5
    /\ tResult[2] = <<"{", "{", "f", "u", "n", "k", "}", "}">>
    /\ tResult[5] = <<" ">>

\* C2: the slices are ordered by start offset and contiguous: the first starts
\* at 0, each starts where the one before it ends, the last ends at the length
\* of the source, so every offset of the source is in exactly one slice.
C2_SlicesContiguous ==
    last.op = "tokenize" =>
        /\ tSlices # <<>>
        /\ tSlices[1][1] = 0
        /\ tSlices[Len(tSlices)][2] = Len(tSource)
        /\ \A i \in 1..Len(tSlices) : tSlices[i][1] <= tSlices[i][2]
        /\ \A i \in 1..(Len(tSlices) - 1) :
              /\ tSlices[i][2] = tSlices[i + 1][1]
              /\ tSlices[i][1] <= tSlices[i + 1][1]
              /\ tPattern = TEMPLATE => tSlices[i][1] < tSlices[i + 1][1]
        /\ \A o \in 0..(Len(tSource) - 1) :
              Cardinality({i \in 1..Len(tSlices) :
                              tSlices[i][1] <= o /\ o < tSlices[i][2]}) = 1

\* C2, its case: the matches left a gap at the start, in the middle and at the
\* end, and the gap slices were merged in.
C2_Witness ==
    /\ last.op = "tokenize"
    /\ tPattern = TEMPLATE
    /\ tSlices = <<<<0, 1>>, <<1, 9>>, <<9, 10>>, <<10, 16>>, <<16, 17>>>>

\* C21: when the pattern matches at no offset of the source, the empty source
\* included, tokenize returns one substring, the whole source.
C21_NoMatchOneSlice ==
    (/\ last.op = "tokenize"
     /\ \A i \in 0..Len(tSource) : MatchAt(tPattern, tSource, i) = -1) =>
        /\ tResult = <<tSource>>
        /\ tSlices = <<<<0, Len(tSource)>>>>

\* C21, its case: the empty source has been tokenized with the tag pattern
C21_Witness ==
    /\ last.op = "tokenize"
    /\ tPattern = TEMPLATE
    /\ tSource = <<>>
    /\ tResult = <<<<>>>>

\* The matches of the pattern of the last call, as find_iter gives them.
Found == FindIter(tPattern, tSource, 0, -1)

\* Whether a slice is one of the matches found; the other slices are the
\* text between the matches.
IsTag(found, slice) == \E j \in 1..Len(found) : found[j] = slice

\* C25 as stated: the slices alternate, so no two slices in a row are both
\* text and no two in a row are both matches of the pattern.
C25_SlicesAlternate ==
    last.op = "tokenize" =>
        LET found == Found
        IN  \A i \in 1..(Len(tSlices) - 1) :
                IsTag(found, tSlices[i]) # IsTag(found, tSlices[i + 1])

\* C25, amended: no two slices in a row are both text, and a slice of text
\* is never empty where there is a match; so two matches that touch, the
\* second starting where the first ends, are two slices in a row, and two
\* matches with text between them have exactly one slice, that text,
\* between them.
C25_TextBetweenTagsOnly ==
    last.op = "tokenize" =>
        LET found == Found
        IN  /\ \A i \in 1..(Len(tSlices) - 1) :
                   IsTag(found, tSlices[i]) \/ IsTag(found, tSlices[i + 1])
            /\ \A i \in 1..Len(tSlices) :
                   (found # <<>> /\ ~IsTag(found, tSlices[i])) =>
                       tSlices[i][1] < tSlices[i][2]
            /\ \A j \in 1..(Len(found) - 1) :
                   IF found[j][2] = found[j + 1][1]
                   THEN \E i \in 1..(Len(tSlices) - 1) :
                            /\ tSlices[i] = found[j]
                            /\ tSlices[i + 1] = found[j + 1]
                   ELSE \E i \in 1..(Len(tSlices) - 2) :
                            /\ tSlices[i] = found[j]
                            /\ tSlices[i + 1] = <<found[j][2], found[j + 1][1]>>
                            /\ ~IsTag(found, tSlices[i + 1])
                            /\ tSlices[i + 2] = found[j + 1]

\* C25, its case: "{{a}}{%b%}" has been tokenized into two tags in a row
C25_Witness ==
    /\ last.op = "tokenize"
    /\ tPattern = TEMPLATE
    /\ tResult = << <<"{", "{", "a", "}", "}">>, <<"{", "%", "b", "%", "}">> >>
    /\ IsTag(Found, tSlices[1])
    /\ IsTag(Found, tSlices[2])

-----------------------------------------------------------------------------
(* The Scanner over every short text, under every sequence of its calls *)

ScannerChars == {<<"a">>, <<"1">>, <<" ">>, <<"C3", "A9">>}

\* "test 12", after the tests
TestTexts == { <<"t", "e", "s", "t", " ", "1", "2">> }

ScannerTexts == StringsOf(ScannerChars, MaxTextLen) \cup TestTexts

ScanPatterns == {WORDS, DIGITS, DIGITS_AHEAD}

SkipCounts == {0, 1, 2, USIZE_MAX}

InitScanner ==
    /\ \E src \in ScannerTexts : ScannerNew(src)
    /\ stream = <<>>
    /\ calls = 0
    /\ last = NoCall
    /\ TokenizerIdle /\ ParserIdle /\ ContextIdle

NextScanner ==
    \/ /\ \E n \in SkipCounts : Skip(n)
       /\ UNCHANGED <<tokenizerVars, parserVars, contextVars>>
    \/ /\ RestCall
       /\ UNCHANGED <<tokenizerVars, parserVars, contextVars>>
    \/ /\ GetCharCall
       /\ UNCHANGED <<tokenizerVars, parserVars, contextVars>>
    \/ /\ \E pattern \in ScanPatterns : ScanCall(pattern)
       /\ UNCHANGED <<tokenizerVars, parserVars, contextVars>>
    \/ /\ \E pattern \in ScanPatterns : CheckCall(pattern)
       /\ UNCHANGED <<tokenizerVars, parserVars, contextVars>>
    \/ /\ PositionCall
       /\ UNCHANGED <<tokenizerVars, parserVars, contextVars>>
    \/ /\ IsEosCall
       /\ UNCHANGED <<tokenizerVars, parserVars, contextVars>>

SpecScanner == InitScanner /\ [][NextScanner]_vars

\* Where the cursor stands once the whitespace at offset from is skipped.
AfterWhitespace(src, from) == from + LeadingChars(Slice(src, from, Len(src)))

\* C7: scan skips the leading whitespace, then tests the pattern at the
\* cursor: on a match that starts at the cursor it returns the matched text
\* and leaves the cursor after the match and the whitespace that follows it;
\* otherwise it returns none and the cursor stays where the whitespace skip
\* left it.
C7_ScanAnchoredAtCursor ==
    last.op = "scan" =>
        LET cursor == AfterWhitespace(source, last.from)
            rest   == Slice(source, cursor, Len(source))
            end    == MatchAt(last.arg, rest, 0)
        IN  IF end # -1
            THEN /\ last.ret = Some(Slice(rest, 0, end))
                 /\ index = AfterWhitespace(source, cursor + end)
            ELSE /\ last.ret = None
                 /\ index = cursor

\* C15: get_char returns none at the end of the source; before the end it
\* returns the whole character at the cursor, all the bytes of its encoding,
\* and moves the cursor by that many bytes.
C15_GetCharWholeCharacter ==
    last.op = "get_char" =>
        IF last.from >= length
        THEN /\ last.ret = None
             /\ index = last.from
        ELSE LET width == CharWidth(source, last.from)
             IN  /\ last.ret = Some(Slice(source, last.from, last.from + width))
                 /\ index = last.from + width

\* C16: no call moves the cursor back, and the position stays between 0 and
\* the length; skip(n) returns normally for every n and sets the cursor to
\* the smaller of position + n and the length; is_eos is true exactly when
\* the position is the length.
C16_CursorMonotone ==
    [][/\ index' >= index
       /\ Position(source', index') >= 0
       /\ Position(source', index') <= length'
       /\ last'.op = "skip" =>
              /\ last'.ret = Unit
              /\ index' = Min(Position(source, index) + last'.arg, length)
       /\ last'.op = "is_eos" =>
              last'.ret = (Position(source, index) = length)]_vars

\* C17: check skips the whitespace at the cursor and tests the pattern as
\* scan does, without consuming: it returns true exactly when scan, called
\* in the same state, would return a match; it leaves the cursor on the
\* first character at or after its old place that is not whitespace; and
\* check called again returns the same and leaves the cursor where it is.
\* With the cursor inside a character neither check nor scan returns: both
\* fail on the slice of the source, and the cursor stays.
C17_CheckPeeks ==
    last.op = "check" =>
        IF RawPanics(source, last.from)
        THEN /\ last.ret = Scan(source, last.from, last.arg).ret
             /\ IsPanic(last.ret)
             /\ index = last.from
        ELSE /\ last.ret = IsSome(Scan(source, last.from, last.arg).ret)
             /\ index = AfterWhitespace(source, last.from)
             /\ Check(source, index, last.arg) = Outcome(index, last.ret)

\* check has skipped whitespace and found the pattern where scan would
C17_Witness ==
    /\ last.op = "check"
    /\ ~RawPanics(source, last.from)
    /\ last.ret = TRUE
    /\ index > last.from
    /\ IsSome(Scan(source, last.from, last.arg).ret)

-----------------------------------------------------------------------------
(* The Tokens of a Lexer over every short text and the texts of the tests *)

LexerChars ==
    {<<"a">>, <<"5">>, <<".">>, <<"=">>, <<"<">>, <<" ">>, <<"'">>, <<"-">>,
     <<"%">>, <<"C3", "A9">>}

\* "== <> contains"
ComparisonsText ==
    <<"=", "=", " ", "<", ">", " ", "c", "o", "n", "t", "a", "i", "n", "s">>

\* "2foo 5.0bar"
NumbersText == <<"2", "f", "o", "o", " ", "5", ".", "0", "b", "a", "r">>

\* "containsx"
ContainsText == <<"c", "o", "n", "t", "a", "i", "n", "s", "x">>

\* "[hi], (| .:) - ?cool"
SpecialsText ==
    <<"[", "h", "i", "]", ",", " ", "(", "|", " ", ".", ":", ")", " ", "-",
      " ", "?", "c", "o", "o", "l">>

\* "  \t \n\r "
WhitespaceOnlyText == <<" ", " ", "\t", " ", "\n", "\r", " ">>

\* "five|\n\t =="
MultilineText == <<"f", "i", "v", "e", "|", "\n", "\t", " ", "=", "=">>

LexerTexts ==
    StringsOf(LexerChars, MaxTextLen)
        \cup {ComparisonsText, NumbersText, ContainsText, SpecialsText,
              WhitespaceOnlyText, MultilineText}

InitLexer ==
    /\ \E src \in LexerTexts : ScannerNew(src)
    /\ stream = <<>>
    /\ calls = 0
    /\ last = NoCall
    /\ TokenizerIdle /\ ParserIdle /\ ContextIdle

NextLexer ==
    \/ /\ TokensNext
       /\ UNCHANGED <<tokenizerVars, parserVars, contextVars>>
    \/ /\ LexerTokens
       /\ UNCHANGED <<tokenizerVars, parserVars, contextVars>>

SpecLexer == InitLexer /\ [][NextLexer]_vars

\* The order of the patterns and the kind of token of each, as the claim
\* gives them.
PriorityOrder ==
    <<COMPARISON, SINGLE_STRING_LITERAL, DOUBLE_STRING_LITERAL, NUMBER_LITERAL,
      IDENTIFIER, RANGE_OP>>

PriorityKind ==
    <<"Comparison", "String", "String", "Number", "Identifier", "Range">>

\* The patterns, by their place in the order, that match at the start of rest.
Hits(rest) == {k \in 1..Len(PriorityOrder) : MatchAt(PriorityOrder[k], rest, 0) # -1}

Least(S) == CHOOSE m \in S : \A n \in S : m <= n

\* C6: next returns the token of the first pattern, in the order Comparison,
\* String ('), String ("), Number, Identifier, Range, that matches at the
\* cursor once the whitespace is skipped, whatever a later pattern would
\* match; "== <> contains" gives three Comparison tokens and "2foo 5.0bar"
\* gives Number 2, Identifier foo, Number 5.0, Identifier bar.
C6_FirstPatternWins ==
    /\ last.op = "next" =>
          LET cursor == AfterWhitespace(source, last.from)
              rest   == Slice(source, cursor, Len(source))
              first  == Least(Hits(rest))
          IN  Hits(rest) # {} =>
                  last.ret = Some(<<PriorityKind[first],
                                    Slice(rest, 0, MatchAt(PriorityOrder[first], rest, 0))>>)
    /\ (source = ComparisonsText /\ index = length) =>
          stream = << <<"Comparison", <<"=", "=">>>>,
                      <<"Comparison", <<"<", ">">>>>,
                      <<"Comparison", <<"c", "o", "n", "t", "a", "i", "n", "s">>>> >>
    /\ (source = NumbersText /\ index = length) =>
          stream = << <<"Number", <<"2">>>>,
                      <<"Identifier", <<"f", "o", "o">>>>,
                      <<"Number", <<"5", ".", "0">>>>,
                      <<"Identifier", <<"b", "a", "r">>>> >>

\* C6, its case: at the cursor both the Comparison pattern and the Identifier
\* pattern match, the Identifier pattern with a longer lexeme, and next has
\* returned the Comparison.
C6_Witness ==
    /\ last.op = "next"
    /\ source = ContainsText
    /\ last.from = 0
    /\ MatchAt(IDENTIFIER, source, 0) > MatchAt(COMPARISON, source, 0)
    /\ last.ret = Some(<<"Comparison", <<"c", "o", "n", "t", "a", "i", "n", "s">>>>)

\* The ten special characters
SpecialChars == {"|", ".", ":", ",", "[", "]", "(", ")", "?", "-"}

\* C10: when no pattern matches at the cursor and the next character is not
\* a special character, next fails with a syntax error that carries the
\* character and its position, and a retry does not resume past the character.
C10_SyntaxErrorCarriesCharacter ==
    last.op = "next" =>
        LET cursor == AfterWhitespace(source, last.from)
            rest   == Slice(source, cursor, Len(source))
        IN  (Hits(rest) = {} /\ rest # <<>> /\ rest[1] \notin SpecialChars) =>
                /\ IsPanic(last.ret)
                /\ "character" \in DOMAIN last.ret
                /\ last.ret.character = Slice(rest, 0, CharWidth(rest, 0))
                /\ "position" \in DOMAIN last.ret
                /\ last.ret.position = cursor
                /\ index <= cursor

\* C11: the token sequence of every text is finite: a next that returns a
\* token moves the cursor forward, so once next has been called as many times
\* as the text has bytes the cursor is at the end; a next called at the end
\* returns none and leaves the cursor there; and Lexer::tokens called again
\* does not move the cursor back to 0.
C11_StreamEndsWithinLength ==
    /\ (last.op = "next" /\ ~IsPanic(last.ret) /\ IsSome(last.ret)) =>
            index > last.from
    /\ Len(stream) <= index
    /\ calls >= Len(source) => index = length
    /\ (last.op = "next" /\ last.from = length) =>
            (last.ret = None /\ index = length)
    /\ last.op = "tokens" => index = last.from

\* The token kind of each special character, as the claim lists them.
SpecialKind(c) ==
    CASE c = "|" -> "Pipe"
      [] c = "." -> "Dot"
      [] c = ":" -> "Colon"
      [] c = "," -> "Comma"
      [] c = "[" -> "OpenSquare"
      [] c = "]" -> "CloseSquare"
      [] c = "(" -> "OpenRound"
      [] c = ")" -> "CloseRound"
      [] c = "?" -> "Question"
      [] c = "-" -> "Dash"

\* C20: when no pattern matches at the cursor and the character there is a
\* special character, next consumes that one character and returns the token
\* of its kind (| Pipe, . Dot, : Colon, , Comma, [ OpenSquare, ] CloseSquare,
\* ( OpenRound, ) CloseRound, ? Question, - Dash) with the character as its
\* lexeme; two dots side by side come back as one Range token, not as a Dot.
C20_SpecialCharacters ==
    last.op = "next" =>
        LET cursor == AfterWhitespace(source, last.from)
            rest   == Slice(source, cursor, Len(source))
        IN  /\ (Hits(rest) = {} /\ rest # <<>> /\ rest[1] \in SpecialChars) =>
                   /\ last.ret = Some(<<SpecialKind(rest[1]), <<rest[1]>>>>)
                   /\ index = cursor + 1
            /\ StartsWith(rest, 0, <<".", ".">>) =>
                   /\ last.ret = Some(<<"Range", <<".", ".">>>>)
                   /\ index >= cursor + 2

\* next has returned the Question token of "[hi], (| .:) - ?cool", after the
\* nine special tokens before it
C20_Witness ==
    /\ source = SpecialsText
    /\ last.op = "next"
    /\ last.ret = Some(<<"Question", <<"?">>>>)
    /\ stream = << <<"OpenSquare", <<"[">>>>, <<"Identifier", <<"h", "i">>>>,
                   <<"CloseSquare", <<"]">>>>, <<"Comma", <<",">>>>,
                   <<"OpenRound", <<"(">>>>, <<"Pipe", <<"|">>>>,
                   <<"Dot", <<".">>>>, <<"Colon", <<":">>>>,
                   <<"CloseRound", <<")">>>>, <<"Dash", <<"-">>>>,
                   <<"Question", <<"?">>>> >>

-----------------------------------------------------------------------------
(* The Parser over the token sequences of its tests' texts *)

\* "wat: 7", "wat 6 Peter Hegemon", "hi?[5].there?", "(5..7)",
\* "== 'a' | , - ?" and the empty text
ParserTexts ==
    { <<"w", "a", "t", ":", " ", "7">>,
      <<"w", "a", "t", " ", "6", " ", "P", "e", "t", "e", "r", " ", "H", "e",
        "g", "e", "m", "o", "n">>,
      <<"h", "i", "?", "[", "5", "]", ".", "t", "h", "e", "r", "e", "?">>,
      <<"(", "5", ".", ".", "7", ")">>,
      <<"=", "=", " ", "'", "a", "'", " ", "|", " ", ",", " ", "-", " ", "?">>,
      <<>> }

JumpOffsets == {ISIZE_MIN, -2, -1, 0, 1, 2, ISIZE_MAX}

InitParser ==
    /\ \E src \in ParserTexts : ParserNew(src)
    /\ jumps = <<>>
    /\ last = NoCall
    /\ TokenizerIdle /\ ScannerIdle /\ ContextIdle

NextParser ==
    \/ /\ \E n \in JumpOffsets : Jump(n)
       /\ UNCHANGED <<tokenizerVars, scannerVars, contextVars, jumps>>
    \/ /\ \E token \in Token : Consume(token)
       /\ UNCHANGED <<tokenizerVars, scannerVars, contextVars, jumps>>
    \/ /\ Expression
       /\ UNCHANGED <<tokenizerVars, scannerVars, contextVars, jumps>>
    \/ /\ \E token \in Token : IsCurrent(token)
       /\ UNCHANGED <<tokenizerVars, scannerVars, contextVars, jumps>>
    \/ /\ \E token \in Token, offset \in JumpOffsets :
              IsCurrentOffset(token, offset)
       /\ UNCHANGED <<tokenizerVars, scannerVars, contextVars, jumps>>

SpecParser == InitParser /\ [][NextParser]_vars

\* C5: consume returns the lexeme of the token at the cursor and moves the
\* cursor by one when that token has the kind asked for; on another kind, or
\* with the cursor at or past the end, it returns none and leaves the cursor.
C5_ConsumeProbes ==
    [][last'.op = "consume" =>
          IF current_index < Len(tokens)
                /\ tokens[current_index + 1][1] = last'.token
          THEN /\ last'.ret = Some(tokens[current_index + 1][2])
               /\ current_index' = current_index + 1
               /\ tokens' = tokens
          ELSE /\ last'.ret = None
               /\ current_index' = current_index
               /\ tokens' = tokens]_vars

\* C5, its case: consume has returned none on a token of another kind and
\* the cursor still stands on that token.
C5_Witness ==
    /\ last.op = "consume"
    /\ last.ret = None
    /\ current_index < Len(tokens)
    /\ tokens[current_index + 1][1] # last.token
    /\ tokens[current_index + 1][1] = "Colon"

\* C8: jump sets the cursor to current_index + offset whenever that sum is
\* not negative, with no upper bound; when the sum is negative it fails and
\* leaves the cursor, so the cursor is never below zero.
C8_JumpNoUpperBound ==
    [][last'.op = "jump" =>
          /\ current_index' >= 0
          /\ IF current_index + last'.n >= 0
             THEN /\ ~IsPanic(last'.ret)
                  /\ current_index' = current_index + last'.n
             ELSE /\ IsPanic(last'.ret)
                  /\ current_index' = current_index]_vars

-----------------------------------------------------------------------------
(* The Parser's cursor under every sequence of jumps, with the last two     *)
(* jumps remembered                                                          *)

\* The last two elements of a sequence.
LastTwo(seq) == IF Len(seq) <= 2 THEN seq ELSE SubSeq(seq, Len(seq) - 1, Len(seq))

\* A call of Parser::jump, remembered in jumps.
Jumped(n) ==
    /\ Jump(n)
    /\ jumps' = LastTwo(Append(jumps, [n |-> n, from |-> current_index,
                                       ret |-> last'.ret]))

InitJump ==
    /\ \E src \in ParserTexts : ParserNew(src)
    /\ jumps = <<>>
    /\ last = NoCall
    /\ TokenizerIdle /\ ScannerIdle /\ ContextIdle

NextJump ==
    /\ \E n \in JumpOffsets : Jumped(n)
    /\ UNCHANGED <<tokenizerVars, scannerVars, contextVars>>

SpecJump == InitJump /\ [][NextJump]_vars

\* Whether the last two calls were jump(2) and then jump(-1).
TwoThenBackOne ==
    /\ Len(jumps) = 2
    /\ jumps[1].n = 2
    /\ jumps[2].n = -1

\* C22 as stated: after jump(2) and then jump(-1) the cursor is at the index
\* it had before the two jumps.
C22_JumpRoundTrip ==
    TwoThenBackOne => current_index = jumps[1].from

\* C22, amended: after jump(2) and then jump(-1) the cursor is one past the
\* index it had before the two jumps, both jumps having returned normally,
\* as long as that index plus 2 fits an isize; from the last two indices
\* below isize::MAX jump(2) fails and leaves the cursor, and jump(-1) then
\* moves it one back.
C22_JumpTwoBackOneIsForwardOne ==
    TwoThenBackOne =>
        LET before == jumps[1].from
        IN  IF before + 2 <= ISIZE_MAX
            THEN /\ jumps[1].ret = Unit
                 /\ jumps[2].from = before + 2
                 /\ jumps[2].ret = Unit
                 /\ current_index = before + 1
            ELSE /\ IsPanic(jumps[1].ret)
                 /\ jumps[2].from = before
                 /\ jumps[2].ret = Unit
                 /\ current_index = before - 1

\* C22, its case: from index 0 of "wat: 7", jump(2) and jump(-1) have left
\* the cursor on the Colon, token number 1
C22_Witness ==
    /\ TwoThenBackOne
    /\ jumps[1].from = 0
    /\ current_index = 1
    /\ Len(tokens) = 3
    /\ tokens[current_index + 1][1] = "Colon"

\* C18: is_current and is_current_offset leave the cursor and the tokens as
\* they are and return true exactly when the cursor plus the offset is the
\* number of a token and that token has the kind asked for; they return false,
\* and do not fail, when that number is negative or past the last token.
C18_PeeksArePure ==
    [][last'.op \in {"is_current", "is_current_offset"} =>
          LET target == current_index + last'.offset
          IN  /\ current_index' = current_index
              /\ tokens' = tokens
              /\ last'.ret \in BOOLEAN
              /\ last'.ret = (/\ target >= 0
                              /\ target < Len(tokens)
                              /\ tokens[target + 1][1] = last'.token)]_vars

\* is_current_offset has returned false for a token before the first one
C18_Witness ==
    /\ last.op = "is_current_offset"
    /\ last.from > 0
    /\ last.from + last.offset < 0
    /\ last.ret = FALSE
    /\ current_index = last.from

-----------------------------------------------------------------------------
(* Parser::expression over every text of a few lexemes and the texts of the *)
(* tests                                                                     *)

\* most lexemes in an enumerated Parser text
MaxExprLen == 4

ExprLexemes ==
    { <<"a">>, <<"5">>, <<".">>, <<".", ".">>, <<"[">>, <<"]">>, <<"(">>,
      <<")">> }

\* "hi.there hi?[5].there? hi.there.bob"
PathsText ==
    <<"h", "i", ".", "t", "h", "e", "r", "e", " ", "h", "i", "?", "[", "5",
      "]", ".", "t", "h", "e", "r", "e", "?", " ", "h", "i", ".", "t",
      "h", "e", "r", "e", ".", "b", "o", "b">>

\* "567 6.0 'lol' \"wut\""
LiteralsText ==
    <<"5", "6", "7", " ", "6", ".", "0", " ", "'", "l", "o", "l", "'", " ",
      "\"", "w", "u", "t", "\"">>

\* "(5..7) (1.5..9.6) (young..old) (hi[5].wat..old)"
RangesText ==
    <<"(", "5", ".", ".", "7", ")", " ", "(", "1", ".", "5", ".", ".", "9",
      ".", "6", ")", " ", "(", "y", "o", "u", "n", "g", ".", ".", "o",
      "l", "d", ")", " ", "(", "h", "i", "[", "5", "]", ".", "w", "a",
      "t", ".", ".", "o", "l", "d", ")">>

\* "a[5]['k'].b[(1..c)]" and "((1..2)..(a..b[0]))"
NestedTexts ==
    { <<"a", "[", "5", "]", "[", "'", "k", "'", "]", ".", "b", "[", "(",
        "1", ".", ".", "c", ")", "]">>,
      <<"(", "(", "1", ".", ".", "2", ")", ".", ".", "(", "a", ".", ".",
        "b", "[", "0", "]", ")", ")">> }

ExprTexts ==
    StringsOf(ExprLexemes, MaxExprLen)
        \cup {PathsText, LiteralsText, RangesText} \cup NestedTexts

InitExpression ==
    /\ \E src \in ExprTexts : ParserNew(src)
    /\ jumps = <<>>
    /\ last = NoCall
    /\ TokenizerIdle /\ ScannerIdle /\ ContextIdle

NextExpression ==
    /\ Expression
    /\ UNCHANGED <<tokenizerVars, scannerVars, contextVars, jumps>>

SpecExpression == InitExpression /\ [][NextExpression]_vars

\* The kind of token number i (from 0) of ts, "none" past the last token.
KindAt(ts, i) == IF i >= 0 /\ i < Len(ts) THEN ts[i + 1][1] ELSE "none"

\* The lexemes of the tokens from number from up to, not including, number
\* to, one after the other.
RECURSIVE Lexemes(_, _, _)
Lexemes(ts, from, to) ==
    IF from >= to THEN <<>>
    ELSE ts[from + 1][2] \o Lexemes(ts, from + 1, to)

\* The grammar of the claims, read from token number i of ts with every
\* suffix taken as soon as its first token shows: the number of the token
\* after the phrase, or -1 when the tokens from i on are no such phrase.
\*   expression := variable | range | String | Number
\*   variable   := Identifier ('[' expression ']')* ('.' variable)?
\*   range      := '(' expression '..' expression ')'
RECURSIVE ExpressionEnd(_, _), VariableEnd(_, _), SuffixesEnd(_, _),
          RangeEnd(_, _)

SuffixesEnd(ts, i) ==
    IF KindAt(ts, i) # "OpenSquare" THEN i
    ELSE LET inner == ExpressionEnd(ts, i + 1)
         IN  IF inner = -1 \/ KindAt(ts, inner) # "CloseSquare" THEN -1
             ELSE SuffixesEnd(ts, inner + 1)

VariableEnd(ts, i) ==
    IF KindAt(ts, i) # "Identifier" THEN -1
    ELSE LET suffixed == SuffixesEnd(ts, i + 1)
         IN  IF suffixed = -1 THEN -1
             ELSE IF KindAt(ts, suffixed) = "Dot"
                  THEN VariableEnd(ts, suffixed + 1)
             ELSE suffixed

RangeEnd(ts, i) ==
    IF KindAt(ts, i) # "OpenRound" THEN -1
    ELSE LET lo == ExpressionEnd(ts, i + 1)
             hi == ExpressionEnd(ts, lo + 1)
         IN  IF lo = -1 \/ KindAt(ts, lo) # "Range" THEN -1
             ELSE IF hi = -1 \/ KindAt(ts, hi) # "CloseRound" THEN -1
             ELSE hi + 1

ExpressionEnd(ts, i) ==
    IF KindAt(ts, i) = "Identifier" THEN VariableEnd(ts, i)
    ELSE IF KindAt(ts, i) = "OpenRound" THEN RangeEnd(ts, i)
    ELSE IF KindAt(ts, i) \in {"String", "Number"} THEN i + 1
    ELSE -1

\* C12: on an Identifier, expression hands over to variable, which accepts
\* exactly Identifier ('[' expression ']')* ('.' variable)? from the cursor:
\* on such a phrase it returns the lexemes of the tokens of the phrase, one
\* after the other, and leaves the cursor after the last of them; on
\* anything else it returns no text.
C12_VariableGrammar ==
    (last.op = "expression" /\ KindAt(tokens, last.from) = "Identifier") =>
        LET end == VariableEnd(tokens, last.from)
        IN  IF end # -1
            THEN /\ last.ret = Some(Lexemes(tokens, last.from, end))
                 /\ current_index = end
            ELSE IsPanic(last.ret)

\* expression has returned "hi?[5].there?" from the tokens of PathsText
C12_Witness ==
    /\ last.op = "expression"
    /\ last.from = 3
    /\ last.ret = Some(<<"h", "i", "?", "[", "5", "]", ".", "t", "h", "e",
                         "r", "e", "?">>)
    /\ current_index = 9

\* C13: on an opening parenthesis, expression hands over to range, which
\* accepts exactly '(' expression '..' expression ')' from the cursor, the
\* two bounds being literals, variables or ranges: on such a phrase it returns
\* the lexemes of its tokens, "(<expr>..<expr>)", and leaves the cursor after
\* the closing parenthesis; on anything else it returns no text.
C13_RangeGrammar ==
    (last.op = "expression" /\ KindAt(tokens, last.from) = "OpenRound") =>
        LET end == RangeEnd(tokens, last.from)
        IN  IF end # -1
            THEN /\ last.ret = Some(Lexemes(tokens, last.from, end))
                 /\ last.ret.value[1] = "("
                 /\ KindAt(tokens, end - 1) = "CloseRound"
                 /\ current_index = end
            ELSE IsPanic(last.ret)

\* expression has returned "(hi[5].wat..old)" from the tokens of RangesText
C13_Witness ==
    /\ last.op = "expression"
    /\ last.ret = Some(<<"(", "h", "i", "[", "5", "]", ".", "w", "a", "t",
                         ".", ".", "o", "l", "d",
                         ")">>)
    /\ current_index = Len(tokens)

\* C14: expression goes by the kind of the token at the cursor: an Identifier
\* gives what variable gives, an opening parenthesis what range gives, a
\* String or a Number its lexeme with the cursor moved by one, and any other
\* kind a syntax error with nothing consumed and nothing returned.
C14_ExpressionDispatch ==
    last.op = "expression" =>
        LET kind == KindAt(tokens, last.from)
        IN  /\ kind = "Identifier" =>
                   Outcome(current_index, last.ret) = variable(last.from)
            /\ kind = "OpenRound" =>
                   Outcome(current_index, last.ret) = range(last.from)
            /\ kind \in {"String", "Number"} =>
                   /\ last.ret = Some(tokens[last.from + 1][2])
                   /\ current_index = last.from + 1
            /\ kind \in Token \ {"Identifier", "OpenRound", "String", "Number"}
                   => /\ last.ret = Panic("Syntax Error")
                      /\ current_index = last.from

\* expression has failed on a token that starts no expression
C14_Witness ==
    /\ last.op = "expression"
    /\ KindAt(tokens, last.from) \in {"Dot", "CloseSquare", "Range", "CloseRound"}
    /\ last.ret = Panic("Syntax Error")
    /\ current_index = last.from

-----------------------------------------------------------------------------
(* The Context under every sequence of new, push, pop, add and lookup *)

InitContext ==
    /\ ContextNew
    /\ saved = <<>>
    /\ dropped = None
    /\ last = NoCall
    /\ TokenizerIdle /\ ScannerIdle /\ ParserIdle

NextContext ==
    \/ /\ \E key \in Keys, raw \in RawValues : Add(key, raw)
       /\ UNCHANGED <<tokenizerVars, scannerVars, parserVars, saved, dropped>>
    \/ /\ \E key \in Keys : Lookup(key)
       /\ UNCHANGED <<tokenizerVars, scannerVars, parserVars, saved, dropped>>
    \/ /\ Push
       /\ UNCHANGED <<tokenizerVars, scannerVars, parserVars, saved, dropped>>
    \/ /\ Pop
       /\ UNCHANGED <<tokenizerVars, scannerVars, parserVars, saved, dropped>>

SpecContext == InitContext /\ [][NextContext]_vars

\* The frames that bind key, by index (1 = the base frame).
FramesWith(vs, key) == {i \in 1..Len(vs) : key \in DOMAIN vs[i]}

Max(S) == CHOOSE m \in S : \A n \in S : n <= m

\* C3: after any sequence of new, push, pop, add and lookup the list of frames
\* is not empty and the current scope is the last frame.
C3_ScopeIsTopFrame ==
    /\ Len(variables) >= 1
    /\ current_scope = Len(variables) - 1

\* C3, its case: a pop has removed one of two pushed frames, and a pop on the
\* base frame has failed.
C3_Witness ==
    \/ last.op = "pop" /\ ~IsPanic(last.ret) /\ Len(variables) = 2
    \/ last.op = "pop" /\ IsPanic(last.ret) /\ Len(variables) = 1

\* C4: lookup returns the binding of the innermost frame that binds the key,
\* and none when no frame binds it; a binding of an inner frame hides the
\* binding of an outer frame, which lookup returns again once the inner frame
\* is popped.
C4_LookupInnermostFirst ==
    last.op = "lookup" =>
        IF FramesWith(variables, last.key) = {}
        THEN last.ret = None
        ELSE last.ret = Some(variables[Max(FramesWith(variables, last.key))][last.key])

\* C4, its case: the key is bound in two frames to different values and
\* lookup returned the inner one.
C4_Witness ==
    /\ last.op = "lookup"
    /\ Len(variables) >= 2
    /\ last.key \in DOMAIN variables[1]
    /\ last.key \in DOMAIN variables[Len(variables)]
    /\ variables[1][last.key] # variables[Len(variables)][last.key]
    /\ last.ret = Some(variables[Len(variables)][last.key])

\* C9: pop removes the current frame when a pushed frame exists; on the base
\* frame alone it fails fatally and removes nothing.
C9_PopGuardsBase ==
    [][last'.op = "pop" =>
          IF Len(variables) >= 2
          THEN /\ ~IsPanic(last'.ret)
               /\ variables' = SubSeq(variables, 1, Len(variables) - 1)
          ELSE /\ IsPanic(last'.ret)
               /\ variables' = variables]_vars

\* C9, its case: a pop on a base frame that holds a binding has failed and the
\* binding is still there.
C9_Witness ==
    /\ last.op = "pop"
    /\ IsPanic(last.ret)
    /\ Len(variables) = 1
    /\ DOMAIN variables[1] # {}

\* C19: add binds the key in the last frame and nowhere else: the number of
\* frames, the frames below the last one and the other keys of the last
\* frame stay as they were, and a value of a kind that add takes replaces
\* whatever the last frame held for the key.
C19_AddTopFrameOnly ==
    [][last'.op = "add" =>
          LET top == Len(variables)
              key == last'.key
          IN  /\ Len(variables') = top
              /\ current_scope' = current_scope
              /\ \A i \in 1..(top - 1) : variables'[i] = variables[i]
              /\ DOMAIN variables'[top] \subseteq DOMAIN variables[top] \cup {key}
              /\ \A k \in DOMAIN variables[top] \ {key} :
                     /\ k \in DOMAIN variables'[top]
                     /\ variables'[top][k] = variables[top][k]
              /\ last'.raw.type \in {"&str", "f64", "bool"} =>
                     /\ key \in DOMAIN variables'[top]
                     /\ variables'[top][key].v = last'.raw.v]_vars

\* add has bound, in a pushed frame, a key that the base frame binds to
\* another value, and the base frame has kept its own
C19_Witness ==
    /\ last.op = "add"
    /\ ~IsPanic(last.ret)
    /\ Len(variables) >= 2
    /\ last.key \in DOMAIN variables[Len(variables)]
    /\ variables[Len(variables)][last.key].v = last.raw.v
    /\ last.key \in DOMAIN variables[1]
    /\ variables[1][last.key] # variables[Len(variables)][last.key]

-----------------------------------------------------------------------------
(* Context::add with a value of every type, under push and pop *)

KindKeys == {"x"}

\* RawValues and, besides, an owned String and an f32.
AnyValues ==
    RawValues \cup { [type |-> "String", v |-> "face"],
                     [type |-> "f32", v |-> "123.0"] }

InitKinds ==
    /\ ContextNew
    /\ saved = <<>>
    /\ dropped = None
    /\ last = NoCall
    /\ TokenizerIdle /\ ScannerIdle /\ ParserIdle

NextKinds ==
    \/ /\ \E key \in KindKeys, raw \in AnyValues : Add(key, raw)
       /\ UNCHANGED <<tokenizerVars, scannerVars, parserVars, saved, dropped>>
    \/ /\ Push
       /\ UNCHANGED <<tokenizerVars, scannerVars, parserVars, saved, dropped>>
    \/ /\ Pop
       /\ UNCHANGED <<tokenizerVars, scannerVars, parserVars, saved, dropped>>

SpecKinds == InitKinds /\ [][NextKinds]_vars

\* The Variable kind of each type that add takes, as the claim names them:
\* text, double-precision number, boolean.
KindOf(type) ==
    CASE type = "&str" -> "String"
      [] type = "f64" -> "Number"
      [] type = "bool" -> "Boolean"

\* C23: add takes a value of one of the three kinds (a &str, an f64, a bool)
\* and stores it as that kind; a value of any other type, an integer for one,
\* makes add fail, and every frame is then as it was: nothing is stored under
\* the key, not even a value coerced to one of the three kinds.
C23_AddClosedKinds ==
    [][last'.op = "add" =>
          LET raw == last'.raw
              top == Len(variables)
          IN  IF raw.type \in {"&str", "f64", "bool"}
              THEN /\ last'.ret = Unit
                   /\ last'.key \in DOMAIN variables'[top]
                   /\ variables'[top][last'.key] =
                          [kind |-> KindOf(raw.type), v |-> raw.v]
              ELSE /\ IsPanic(last'.ret)
                   /\ variables' = variables
                   /\ current_scope' = current_scope]_vars

\* C23, its case: an add of an integer has failed on a Context of two frames
\* that hold a text and a number, and the key's binding is still the number
C23_Witness ==
    /\ last.op = "add"
    /\ last.raw.type = "i32"
    /\ IsPanic(last.ret)
    /\ Len(variables) = 2
    /\ variables[1] = [k \in {"x"} |-> [kind |-> "String", v |-> "face"]]
    /\ variables[2] = [k \in {"x"} |-> [kind |-> "Number", v |-> "123.0"]]

-----------------------------------------------------------------------------
(* The Context under push, add, lookup and pop, with the Context of each     *)
(* push remembered until the pop that matches it                             *)

\* A text, a boolean and an integer
ScopeValues ==
    { [type |-> "&str", v |-> "face"], [type |-> "bool", v |-> "true"],
      [type |-> "i32", v |-> "123"] }

\* A call of Context::push: the Context before it is put on saved.
Pushed ==
    /\ Push
    /\ saved' = Append(saved, [variables |-> variables,
                               current_scope |-> current_scope])
    /\ dropped' = None

\* A call of Context::pop: a pop that removes a frame takes the Context of
\* the matching push off saved and keeps the frame in dropped.
Popped ==
    /\ Pop
    /\ IF current_scope >= 1
       THEN /\ saved' = SubSeq(saved, 1, Len(saved) - 1)
            /\ dropped' = Some(variables[Len(variables)])
       ELSE /\ saved' = saved
            /\ dropped' = None

InitScopes ==
    /\ ContextNew
    /\ saved = <<>>
    /\ dropped = None
    /\ last = NoCall
    /\ TokenizerIdle /\ ScannerIdle /\ ParserIdle

NextScopes ==
    \/ /\ \E key \in Keys, raw \in ScopeValues : Add(key, raw)
       /\ dropped' = None
       /\ UNCHANGED <<tokenizerVars, scannerVars, parserVars, saved>>
    \/ /\ \E key \in Keys : Lookup(key)
       /\ dropped' = None
       /\ UNCHANGED <<tokenizerVars, scannerVars, parserVars, saved>>
    \/ /\ Pushed
       /\ UNCHANGED <<tokenizerVars, scannerVars, parserVars>>
    \/ /\ Popped
       /\ UNCHANGED <<tokenizerVars, scannerVars, parserVars>>

SpecScopes == InitScopes /\ [][NextScopes]_vars

\* C24: the pop that matches a push, whatever was added in between, puts the
\* Context back as it was before the push: the frames and the current scope
\* are those of before, so every lookup returns what it returned then, and a
\* key bound in the removed frame alone is found no more.
C24_PopRestores ==
    [][(last'.op = "pop" /\ ~IsPanic(last'.ret)) =>
          LET before == saved[Len(saved)]
              gone   == variables[Len(variables)]
          IN  /\ variables' = before.variables
              /\ current_scope' = before.current_scope
              /\ \A key \in Keys :
                     /\ LookupIn(variables', key) =
                            LookupIn(before.variables, key)
                     /\ (/\ key \in DOMAIN gone
                         /\ \A i \in 1..Len(before.variables) :
                                key \notin DOMAIN before.variables[i])
                            => LookupIn(variables', key) = None]_vars

\* C24, its case: a pop has removed a frame that bound y, which no other
\* frame binds, and x, which the base frame binds to another value; y is not
\* found and x is the base frame's again
C24_Witness ==
    /\ last.op = "pop"
    /\ ~IsPanic(last.ret)
    /\ IsSome(dropped)
    /\ DOMAIN dropped.value = {"x", "y"}
    /\ Len(variables) = 1
    /\ DOMAIN variables[1] = {"x"}
    /\ variables[1]["x"] # dropped.value["x"]
    /\ LookupIn(variables, "y") = None
    /\ LookupIn(variables, "x") = Some(variables[1]["x"])

-----------------------------------------------------------------------------
(* Whitespace and the tokens of a Lexer *)

IsBlank(text) == \A i \in 1..Len(text) : text[i] \in Whitespace

\* A lexeme that neither begins nor ends with whitespace (and is not empty).
Trimmed(lexeme) ==
    /\ lexeme # <<>>
    /\ lexeme[1] \notin Whitespace
    /\ lexeme[Len(lexeme)] \notin Whitespace

\* C26: whitespace is never lexed as a token nor reported as a syntax error.
\* A call of next first passes the whitespace at the cursor: when nothing but
\* whitespace is left it returns None, when it fails the character it failed
\* on is not whitespace, and when it returns a token the lexeme is the text
\* that starts at the first character after the whitespace.  No lexeme of
\* the stream begins or ends with whitespace; an empty or whitespace-only
\* text gives no token; "five|\n\t ==" gives Identifier five, Pipe,
\* Comparison ==.
C26_WhitespaceNeverLexed ==
    /\ last.op = "next" =>
          LET cursor == AfterWhitespace(source, last.from)
          IN  /\ cursor = Len(source) => (last.ret = None /\ index = length)
              /\ IsPanic(last.ret) =>
                     (cursor < Len(source) /\ At(source, cursor) \notin Whitespace)
              /\ (~IsPanic(last.ret) /\ IsSome(last.ret)) =>
                     LET lexeme == last.ret.value[2]
                     IN  /\ lexeme = Slice(source, cursor, cursor + Len(lexeme))
                         /\ index >= cursor + Len(lexeme)
                         /\ IsBlank(Slice(source, cursor + Len(lexeme), index))
    /\ \A i \in 1..Len(stream) : Trimmed(stream[i][2])
    /\ IsBlank(source) => stream = <<>>
    /\ (source = MultilineText /\ index = length) =>
          stream = << <<"Identifier", <<"f", "i", "v", "e">>>>,
                      <<"Pipe", <<"|">>>>,
                      <<"Comparison", <<"=", "=">>>> >>

\* C26, its case: the Comparison of "five|\n\t ==" has been returned by a
\* call of next that started on the newline after the Pipe.
C26_Witness ==
    /\ source = MultilineText
    /\ last.op = "next"
    /\ last.from = 5
    /\ At(source, last.from) = "\n"
    /\ last.ret = Some(<<"Comparison", <<"=", "=">>>>)
    /\ Len(stream) = 3

\* C26, its other case: next on the whitespace-only text of the test has
\* returned None with the cursor at the end and no token in the stream.
C26_BlankWitness ==
    /\ source = WhitespaceOnlyText
    /\ last.op = "next"
    /\ last.ret = None
    /\ index = length
    /\ stream = <<>>

=============================================================================
